---------------------------- MODULE Spec2Model ----------------------------
(***************************************************************************)
(* butter-video (src/src/main.rs): a frame-by-frame comparison of two      *)
(* video streams by an external image metric tool.                         *)
(*                                                                         *)
(*   run_metric      the sequence aggregator: opens both decoders, pulls   *)
(*                   one frame from each per loop step, scores the pair,   *)
(*                   accumulates, and reports at the end                   *)
(*   compare_frame   the scorer invoker: two temporary .png artifacts,     *)
(*                   one run of the external tool, parsing of its output   *)
(*   yuv_to_rgb_u8   the colorimetric converter, a pure function           *)
(*                                                                         *)
(* Spec      is run_metric as a state machine, one action per step.        *)
(* ConvSpec  applies yuv_to_rgb_u8 to frames drawn from bounded sets.      *)
(***************************************************************************)
EXTENDS Integers, Sequences, FiniteSets, TLC

VARIABLES
    pc,              \* position in run_metric / compare_frame
    overflow_checks, \* the build: TRUE = arithmetic overflow panics (debug)
    details1,        \* VideoDetails of stream 1 (NoDetails before it is opened)
    details2,
    dec1,            \* decoder 1: [open, len, pos, calls, sizes]
    dec2,
    frame1,          \* Option<Frame> of the current step
    frame2,
    sum,             \* running sum of primary scores
    norms,           \* the norm values collected, in order
    frameno,         \* the frame counter
    disk,            \* the temporary files that exist: path -> content
    next_tmp,        \* how many temporary names have been handed out
    path1,           \* compare_frame's two paths (None outside a call)
    path2,
    output,          \* captured stdout of the tool (None outside a call)
    stdout,          \* lines run_metric has printed
    stderr,          \* warnings run_metric has printed
    panic_msg,       \* why the process aborted (NoValue while it has not)
    launches,        \* every attempt to launch the tool, in order
    scored,          \* every completed compare_frame: [f1, f2, score, norm, output]
    cin,             \* ConvSpec: the input of yuv_to_rgb_u8
    cout             \* ConvSpec: its result

vars == <<pc, overflow_checks, details1, details2, dec1, dec2, frame1, frame2,
          sum, norms, frameno, disk, next_tmp, path1, path2, output, stdout,
          stderr, panic_msg, launches, scored, cin, cout>>

run_vars == <<pc, overflow_checks, details1, details2, dec1, dec2, frame1,
              frame2, sum, norms, frameno, disk, next_tmp, path1, path2,
              output, stdout, stderr, panic_msg, launches, scored>>

conv_vars == <<cin, cout>>

NoValue == "none"

\* Option values: None is the empty tuple, Some(x) the tuple of x.
None == << >>

Some(x) == <<x>>

\* A stream that has not been opened.
NoDetails == [width |-> 0, height |-> 0, bit_depth |-> 0, chroma_sampling |-> NoValue]

NoDecoder == [open |-> FALSE, len |-> 0, pos |-> 0, calls |-> 0, sizes |-> {}]

\* No conversion.
NoInput == [details |-> NoDetails, seeds |-> <<0, 0, 0>>, checks |-> FALSE]

NoOutput == [panic |-> NoValue, colorspace |-> NoValue, raster |-> << >>]

---------------------------------------------------------------------------
(* Bounds of the model.                                                    *)

\* Longest stream, in frames.
MaxFrames == 3

\* Widest frame.
MaxWidth == 2

\* Tallest of the small frames (the two heights around HeightSD come on top).
MaxSmallHeight == 2

---------------------------------------------------------------------------
(* Program constants.                                                      *)

\* main.rs:275  plane_y.cfg.height > 576
HeightSD == 576

\* main.rs:272  details.bit_depth - 8
BaseDepth == 8

\* size_of::<u16>() * 8: a shift of a u16 by this much or more overflows
WideBits == 16

\* `as u8` keeps the low eight bits
ByteRange == 256

Pow2(n) == 2 ^ n

Min(a, b) == IF a <= b THEN a ELSE b

Max(a, b) == IF a >= b THEN a ELSE b

ChromaSamplings == {"Cs400", "Cs420", "Cs422", "Cs444"}

\* The bit depths the data model allows.
SupportedBitDepths == {8, 10, 12, 16}

\* size_of::<T>() of the sample type run_metric reads a stream with: the
\* match arms (8, 8), (8, _), (_, 8), (_, _) read u8 exactly for depth 8.
SizeOfSample(bit_depth) == IF bit_depth = BaseDepth THEN 1 ELSE 2

---------------------------------------------------------------------------
(* Decoded frames.  A plane is its configuration and its samples; the      *)
(* samples of the visible area follow a pattern fixed by the plane's seed, *)
(* so that every pixel of a plane differs from its neighbours.             *)

\* Chroma plane dimensions of a layout: 4:2:0 halves both axes (rounding
\* up), 4:2:2 halves the horizontal axis only, 4:4:4 halves none, and a
\* Mono frame has empty chroma planes.
ChromaDims(cs, w, h) ==
    CASE cs = "Cs420" -> <<(w + 1) \div 2, (h + 1) \div 2>>
      [] cs = "Cs422" -> <<(w + 1) \div 2, h>>
      [] cs = "Cs444" -> <<w, h>>
      [] OTHER        -> <<0, 0>>

AlignUp(n, a) == ((n + a - 1) \div a) * a

\* A plane without padding: stride and allocated height are the visible
\* width and height rounded up to the allocation alignment (64 bytes).
NewPlane(w, h, T, bits, seed) ==
    [cfg  |-> [width |-> w, height |-> h,
               stride |-> AlignUp(w, Pow2(7 - T)),
               alloc_height |-> AlignUp(h, Pow2(7 - T))],
     bits |-> bits,
     seed |-> seed]

\* The frame a decoder yields for a stream with these details, read with
\* samples of T bytes.
NewFrame(details, T, seeds) ==
    LET cd == ChromaDims(details.chroma_sampling, details.width, details.height)
    IN [planes |->
          << NewPlane(details.width, details.height, T, details.bit_depth, seeds[1]),
             NewPlane(cd[1], cd[2], T, details.bit_depth, seeds[2]),
             NewPlane(cd[1], cd[2], T, details.bit_depth, seeds[3]) >>]

\* Sample (x, y) of the visible area of a plane.
SampleAt(plane, x, y) ==
    (plane.seed * Pow2(Max(plane.bits - BaseDepth, 0)) + 3 * x + 5 * y)
        % Pow2(plane.bits)

\* The value the allocation is filled with outside the visible area.
PadSample == 128

OutOfRange == -1

\* Plane::p(x, y): data[y * stride + x].  Past the visible width this reads
\* padding or the next row; past the allocation the index is out of range.
PlaneIndex(plane, x, y) == y * plane.cfg.stride + x

PlaneLen(plane) == plane.cfg.stride * plane.cfg.alloc_height

PlaneP(plane, x, y) ==
    LET i == PlaneIndex(plane, x, y)
    IN IF i >= PlaneLen(plane) THEN OutOfRange
       ELSE LET row == i \div plane.cfg.stride
                col == i % plane.cfg.stride
            IN IF col < plane.cfg.width /\ row < plane.cfg.height
               THEN SampleAt(plane, col, row)
               ELSE PadSample

---------------------------------------------------------------------------
(* yuv_to_rgb_u8 (main.rs:268-325).                                        *)

\* main.rs:275-279
colorspace_GE(height) == IF height >= HeightSD THEN "BT709" ELSE "BT601"
colorspace(height) == IF height > HeightSD THEN "BT709" ELSE "BT601"

\* main.rs:272  bit_depth - 8 on usize.  Below 8 the subtraction overflows:
\* a build with overflow checks panics, one without wraps modulo 2^64.  The
\* wrapped value is kept as the negative number it is congruent to.
bd_shift(details) == details.bit_depth - BaseDepth

bd_shift_overflows(details) == details.bit_depth < BaseDepth

\* u16 >> shift: a shift of 16 or more overflows; a build with overflow
\* checks panics, one without masks the shift to its low four bits (2^64 is
\* a multiple of 16, so the mask of a wrapped shift is shift mod 16).
shr_overflows(shift) == shift < 0 \/ shift >= WideBits

shr_u16(v, shift) == v \div Pow2(shift % WideBits)

as_u8(v) == v % ByteRange

\* main.rs:285-289, 306-318: one sample brought to eight bits.
sample_u8(plane, x, y, T, shift) ==
    IF T = 1 THEN PlaneP(plane, x, y)
    ELSE as_u8(shr_u16(PlaneP(plane, x, y), shift))

\* main.rs:295-297
ss_x(cs) == IF cs = "Cs420" THEN 1 ELSE 0

ss_y(cs) == IF cs \in {"Cs420", "Cs422"} THEN 1 ELSE 0

Clamp8(v) == IF v < 0 THEN 0 ELSE IF v > 255 THEN 255 ELSE v

Round1000(n) == (n + 500) \div 1000

\* RGBConvert::<u8>::new(Range::Limited, colorspace).to_rgb (main.rs:300,
\* 320): the limited-range matrix of the colorspace, with its coefficients
\* to three decimals.
to_rgb(cspace, y, u, v) ==
    LET l == 1164 * (y - 16)
        cb == u - 128
        cr == v - 128
    IN IF cspace = "BT709"
       THEN << Clamp8(Round1000(l + 1793 * cr)),
               Clamp8(Round1000(l - 213 * cb - 533 * cr)),
               Clamp8(Round1000(l + 2112 * cb)) >>
       ELSE << Clamp8(Round1000(l + 1596 * cr)),
               Clamp8(Round1000(l - 392 * cb - 813 * cr)),
               Clamp8(Round1000(l + 2017 * cb)) >>

\* main.rs:282-293: a Mono pixel, the luma value three times.
mono_pixel_matrix(frame, details, T, x, y) ==
    LET val == sample_u8(frame.planes[1], x, y, T, bd_shift(details))
    IN to_rgb(colorspace(frame.planes[1].cfg.height), val, 128, 128)
mono_pixel(frame, details, T, x, y) ==
    LET val == sample_u8(frame.planes[1], x, y, T, bd_shift(details))
    IN <<val, val, val>>

\* main.rs:305  (chroma_x, chroma_y) = (x >> ss_x, y >> ss_y)
chroma_xy(cs, x, y) == << x \div Pow2(ss_x(cs)), y \div Pow2(ss_y(cs)) >>

\* main.rs:304-321: a pixel of a frame with chroma.
color_pixel(frame, details, T, x, y) ==
    LET c == chroma_xy(details.chroma_sampling, x, y)
        s == bd_shift(details)
    IN to_rgb(colorspace(frame.planes[1].cfg.height),
              sample_u8(frame.planes[1], x, y, T, s),
              sample_u8(frame.planes[2], c[1], c[2], T, s),
              sample_u8(frame.planes[3], c[1], c[2], T, s))

pixel(frame, details, T, x, y) ==
    IF details.chroma_sampling = "Cs400"
    THEN mono_pixel(frame, details, T, x, y)
    ELSE color_pixel(frame, details, T, x, y)

\* Whether a chroma read of the frame indexes past a plane's allocation.
reads_out_of_range(frame, details) ==
    /\ details.chroma_sampling # "Cs400"
    /\ \E x \in 0 .. frame.planes[1].cfg.width - 1 :
       \E y \in 0 .. frame.planes[1].cfg.height - 1 :
          LET c == chroma_xy(details.chroma_sampling, x, y)
          IN PlaneIndex(frame.planes[2], c[1], c[2]) >= PlaneLen(frame.planes[2])

\* Why the call panics, NoValue when it returns.
yuv_panic(frame, details, T, checks) ==
    LET pixels == frame.planes[1].cfg.width * frame.planes[1].cfg.height
    IN IF checks /\ bd_shift_overflows(details)
       THEN "attempt to subtract with overflow"
       ELSE IF checks /\ T # 1 /\ pixels > 0 /\ shr_overflows(bd_shift(details))
       THEN "attempt to shift right with overflow"
       ELSE IF reads_out_of_range(frame, details)
       THEN "index out of bounds"
       ELSE NoValue

\* The call: [panic, colorspace, raster], the raster row-major, three bytes
\* a pixel.
yuv_to_rgb_u8(frame, details, T, checks) ==
    LET w == frame.planes[1].cfg.width
        h == frame.planes[1].cfg.height
        why == yuv_panic(frame, details, T, checks)
    IN IF why # NoValue
       THEN [panic |-> why, colorspace |-> NoValue, raster |-> << >>]
       ELSE [panic |-> NoValue,
             colorspace |-> IF details.chroma_sampling = "Cs400" THEN NoValue
                            ELSE colorspace(h),
             raster |->
                LET px == [k \in 0 .. w * h - 1 |->
                             pixel(frame, details, T, k % w, k \div w)]
                IN [i \in 1 .. 3 * w * h |-> px[(i - 1) \div 3][((i - 1) % 3) + 1]]]

---------------------------------------------------------------------------
(* ConvSpec: yuv_to_rgb_u8 on frames drawn from bounded sets.              *)

\* Depths a descriptor may declare: the supported ones, one between two of
\* them and one below eight.
BitDepths == SupportedBitDepths \cup {7, 9}

Widths == 1 .. MaxWidth

SmallHeights == 1 .. MaxSmallHeight

\* The two heights at the colorimetry boundary.
BoundaryHeights == {HeightSD, HeightSD + 1}

SeedTriples == {<<40, 90, 200>>, <<180, 128, 128>>, <<180, 90, 128>>}

\* Small frames with every seed triple, boundary frames with one.
ConvInputs ==
    [details : [width : Widths, height : SmallHeights, bit_depth : BitDepths,
                chroma_sampling : ChromaSamplings],
     seeds : SeedTriples,
     checks : BOOLEAN]
    \cup
    [details : [width : Widths, height : BoundaryHeights, bit_depth : BitDepths,
                chroma_sampling : ChromaSamplings],
     seeds : {<<180, 90, 128>>},
     checks : BOOLEAN]

\* The frame of a conversion input, read as run_metric reads the stream.
ConvFrame(in) == NewFrame(in.details, SizeOfSample(in.details.bit_depth), in.seeds)

RunIdle ==
    /\ pc = "convert"
    /\ overflow_checks = FALSE
    /\ details1 = NoDetails /\ details2 = NoDetails
    /\ dec1 = NoDecoder /\ dec2 = NoDecoder
    /\ frame1 = None /\ frame2 = None
    /\ sum = 0 /\ norms = << >> /\ frameno = 0
    /\ disk = << >> /\ next_tmp = 0
    /\ path1 = None /\ path2 = None /\ output = None
    /\ stdout = << >> /\ stderr = << >> /\ panic_msg = NoValue
    /\ launches = << >> /\ scored = << >>

ConvInit ==
    /\ RunIdle
    /\ cin \in ConvInputs
    /\ cout = NoOutput

Convert ==
    /\ pc = "convert"
    /\ pc' = "converted"
    /\ cout' = yuv_to_rgb_u8(ConvFrame(cin), cin.details,
                             SizeOfSample(cin.details.bit_depth), cin.checks)
    /\ UNCHANGED <<cin, overflow_checks, details1, details2, dec1, dec2,
                   frame1, frame2, sum, norms, frameno, disk, next_tmp, path1,
                   path2, output, stdout, stderr, panic_msg, launches, scored>>

ConvNext == Convert

ConvSpec == ConvInit /\ [][ConvNext]_vars

---------------------------------------------------------------------------
(* The tool's captured output and its parsing (main.rs:252-264).           *)
(* A text is the sequence of its lines, a line the sequence of its         *)
(* characters.                                                             *)

Digits == {"0", "1", "2", "3", "4", "5", "6", "7", "8", "9"}

DigitValue(c) ==
    CASE c = "0" -> 0 [] c = "1" -> 1 [] c = "2" -> 2 [] c = "3" -> 3
      [] c = "4" -> 4 [] c = "5" -> 5 [] c = "6" -> 6 [] c = "7" -> 7
      [] c = "8" -> 8 [] OTHER -> 9

RECURSIVE DecimalValue(_)
DecimalValue(ds) ==
    IF ds = << >> THEN 0
    ELSE 10 * DecimalValue(SubSeq(ds, 1, Len(ds) - 1)) + DigitValue(ds[Len(ds)])

AllDigits(ds) == Len(ds) > 0 /\ \A i \in 1 .. Len(ds) : ds[i] \in Digits

\* str::parse::<f64>, on the texts the model writes: an optional sign and
\* decimal digits.  None is Err.
parse_f64(str) ==
    IF str # << >> /\ str[1] \in {"-", "+"}
    THEN IF AllDigits(Tail(str))
         THEN Some((IF str[1] = "-" THEN -1 ELSE 1) * DecimalValue(Tail(str)))
         ELSE None
    ELSE IF AllDigits(str) THEN Some(DecimalValue(str)) ELSE None

RECURSIVE trim_start(_)
trim_start(str) ==
    IF str # << >> /\ str[1] = " " THEN trim_start(Tail(str)) ELSE str

RECURSIVE trim_end(_)
trim_end(str) ==
    IF str # << >> /\ str[Len(str)] = " "
    THEN trim_end(SubSeq(str, 1, Len(str) - 1))
    ELSE str

\* str::trim
trim(str) == trim_end(trim_start(str))

\* str::starts_with
starts_with(str, prefix) ==
    Len(str) >= Len(prefix) /\ SubSeq(str, 1, Len(prefix)) = prefix

\* The first position at which pat occurs in str, 0 when it does not.
FindStr(str, pat) ==
    LET hits == {i \in 1 .. Len(str) - Len(pat) + 1 :
                   SubSeq(str, i, i + Len(pat) - 1) = pat}
    IN IF hits = {} THEN 0
       ELSE CHOOSE i \in hits : \A j \in hits : i <= j

\* str::split_once: Some(<<before, after>>) around the first occurrence.
split_once(str, pat) ==
    LET i == FindStr(str, pat)
    IN IF i = 0 THEN None
       ELSE Some(<< SubSeq(str, 1, i - 1), SubSeq(str, i + Len(pat), Len(str)) >>)

\* The first element of a set of positions.
FirstOf(hits) == CHOOSE i \in hits : \A j \in hits : i <= j

\* main.rs:254-255  lines().find(|line| !line.is_empty())
first_non_empty_last(lines) ==
    LET hits == {i \in 1 .. Len(lines) : lines[i] # << >>}
    IN IF hits = {} THEN None
       ELSE Some(lines[CHOOSE i \in hits : \A j \in hits : i >= j])
first_non_empty(lines) ==
    LET hits == {i \in 1 .. Len(lines) : lines[i] # << >>}
    IN IF hits = {} THEN None ELSE Some(lines[FirstOf(hits)])

Marker == <<"3", "-", "n", "o", "r", "m">>

\* main.rs:261-262  lines().find(|line| line.starts_with("3-norm"))
first_marked_last(lines) ==
    LET hits == {i \in 1 .. Len(lines) : starts_with(lines[i], Marker)}
    IN IF hits = {} THEN None
       ELSE Some(lines[CHOOSE i \in hits : \A j \in hits : i >= j])
first_marked(lines) ==
    LET hits == {i \in 1 .. Len(lines) : starts_with(lines[i], Marker)}
    IN IF hits = {} THEN None ELSE Some(lines[FirstOf(hits)])

\* main.rs:253-259: Some(score), or None where an unwrap panics.
parse_score(lines) ==
    LET line == first_non_empty(lines)
    IN IF line = None THEN None ELSE parse_f64(trim(line[1]))

\* main.rs:260-264: [panic, norm]; the call panics when the marker line has
\* no ": " or when the text after it is not a number.
parse_norm(lines) ==
    LET line == first_marked(lines)
    IN IF line = None THEN [panic |-> FALSE, norm |-> None]
       ELSE LET parts == split_once(line[1], <<":", " ">>)
            IN IF parts = None THEN [panic |-> TRUE, norm |-> None]
               ELSE LET val == parse_f64(parts[1][2])
                    IN [panic |-> val = None, norm |-> val]

\* What the external tool may print.
ToolOutputs ==
    { << <<"1">> >>,
      << << >>, <<" ", "2", " ">>, Marker \o <<":", " ", "5">>, Marker \o <<":", " ", "7">> >>,
      << <<"3">>, <<"9">> >>,
      << >>,
      << <<"x">> >>,
      << <<" ">>, <<"1">> >>,
      << <<"1">>, Marker \o <<" ", "5">> >>,
      << <<"1">>, Marker \o <<":", " ", "x">> >> }

\* The two parses of each text the tool may print, computed once.
ParsedScore == [out \in ToolOutputs |-> parse_score(out)]

ParsedNorm == [out \in ToolOutputs |-> parse_norm(out)]

---------------------------------------------------------------------------
(* run_metric (main.rs:77-205) and compare_frame (main.rs:207-266).        *)

\* Depths the descriptor of an opened stream may declare.
RunBitDepths == {7, 8, 9, 10}

\* The two largest small frame sizes on each axis, so that two streams can
\* differ in width, in height or in both.
RunWidths == {MaxWidth - 1, MaxWidth}

RunHeights == {MaxSmallHeight - 1, MaxSmallHeight}

\* The layout of the streams of a run; ConvSpec converts all four.
RunChromaSamplings == {"Cs420"}

RunDetails ==
    [width : RunWidths, height : RunHeights, bit_depth : RunBitDepths,
     chroma_sampling : RunChromaSamplings]

\* The samples of frame `index` of stream `stream`.
FrameSeeds(stream, index) == << 40 * stream + 7 * index, 90 + index, 128 + stream >>

\* Decoder::read_video_frame::<T>: the next frame, None once the stream is
\* exhausted.  The frame is kept as its index and its sample size.
read_video_frame_endless(dec, T) == Some([index |-> dec.pos, T |-> T])
read_video_frame(dec, T) ==
    IF dec.pos < dec.len THEN Some([index |-> dec.pos, T |-> T]) ELSE None

\* The decoder after the call: one frame further unless exhausted, one more
\* call made, and the sample size of the call among those it was read with.
advance_skip(dec, T) ==
    [dec EXCEPT !.pos = IF dec.pos < dec.len THEN Min(dec.pos + 2, dec.len) ELSE dec.pos,
                !.calls = dec.calls + 1,
                !.sizes = dec.sizes \cup {T}]
advance(dec, T) ==
    [dec EXCEPT !.pos = IF dec.pos < dec.len THEN dec.pos + 1 ELSE dec.pos,
                !.calls = dec.calls + 1,
                !.sizes = dec.sizes \cup {T}]

\* main.rs:90, 91, 115, 139, 163: the arm of the match on the two bit depths,
\* as the sample sizes <<T of dec1's read, T of dec2's read>> of the arm.
match_arm_first_decides(bd1, bd2) ==
    IF bd1 = 8 THEN <<1, 1>> ELSE <<2, 2>>
match_arm(bd1, bd2) ==
    CASE bd1 = 8 /\ bd2 = 8 -> <<1, 1>>
      [] bd1 = 8 /\ bd2 # 8 -> <<1, 2>>
      [] bd1 # 8 /\ bd2 = 8 -> <<2, 1>>
      [] OTHER              -> <<2, 2>>

\* The planes of a frame a decoder yielded.
FrameOf(stream, details, f) == NewFrame(details, f.T, FrameSeeds(stream, f.index))

\* A panic: the process unwinds and ends.
panic(msg) == pc' = "panic" /\ panic_msg' = msg

Init ==
    /\ pc = "open1"
    /\ overflow_checks \in BOOLEAN
    /\ details1 = NoDetails /\ details2 = NoDetails
    /\ dec1 = NoDecoder /\ dec2 = NoDecoder
    /\ frame1 = None /\ frame2 = None
    /\ sum = 0 /\ norms = << >> /\ frameno = 0
    /\ disk = << >> /\ next_tmp = 0
    /\ path1 = None /\ path2 = None /\ output = None
    /\ stdout = << >> /\ stderr = << >> /\ panic_msg = NoValue
    /\ launches = << >> /\ scored = << >>
    /\ cin = NoInput /\ cout = NoOutput

\* main.rs:78-79
Open1 ==
    /\ pc = "open1"
    /\ \/ /\ panic("Failed to open file")
          /\ UNCHANGED <<details1, dec1>>
       \/ /\ \E d \in RunDetails, n \in 0 .. MaxFrames :
               /\ details1' = d
               /\ dec1' = [open |-> TRUE, len |-> n, pos |-> 0, calls |-> 0, sizes |-> {}]
          /\ pc' = "open2"
          /\ UNCHANGED panic_msg
    /\ UNCHANGED <<overflow_checks, details2, dec2, frame1, frame2, sum, norms,
                   frameno, disk, next_tmp, path1, path2, output, stdout,
                   stderr, launches, scored, cin, cout>>

\* main.rs:80-81
Open2 ==
    /\ pc = "open2"
    /\ \/ /\ panic("Failed to open file")
          /\ UNCHANGED <<details2, dec2>>
       \/ /\ \E d \in RunDetails, n \in 0 .. MaxFrames :
               /\ details2' = d
               /\ dec2' = [open |-> TRUE, len |-> n, pos |-> 0, calls |-> 0, sizes |-> {}]
          /\ pc' = "check"
          /\ UNCHANGED panic_msg
    /\ UNCHANGED <<overflow_checks, details1, dec1, frame1, frame2, sum, norms,
                   frameno, disk, next_tmp, path1, path2, output, stdout,
                   stderr, launches, scored, cin, cout>>

\* main.rs:82-83  the two assert_eq!
dims_differ_height_only(d1, d2) == d1.height # d2.height
dims_differ(d1, d2) == d1.height # d2.height \/ d1.width # d2.width

\* main.rs:82-87
CheckDims ==
    /\ pc = "check"
    /\ IF dims_differ(details1, details2)
       THEN panic("assertion failed: left == right")
       ELSE pc' = "read" /\ UNCHANGED panic_msg
    /\ sum' = 0 /\ norms' = << >> /\ frameno' = 0
    /\ UNCHANGED <<overflow_checks, details1, details2, dec1, dec2, frame1,
                   frame2, disk, next_tmp, path1, path2, output, stdout,
                   stderr, launches, scored, cin, cout>>

\* main.rs:94, 118, 142, 166
loop_ends(f1, f2) == f1 = None \/ f2 = None

\* main.rs:95, 119, 143, 167
lengths_differ_always(f1, f2) == TRUE
lengths_differ(f1, f2) == f1 # None \/ f2 # None

\* main.rs:96-99  the warning, with the frame index it cites
warning_off_by_one(n) == [text |-> "WARNING: Clips did not match in length! Ending at frame", frame |-> n + 1]
warning(n) == [text |-> "WARNING: Clips did not match in length! Ending at frame", frame |-> n]

\* main.rs:89-102 (and the three other arms): one pull from each stream,
\* then the end-of-stream test.
ReadFrames ==
    /\ pc = "read"
    /\ LET T == match_arm(details1.bit_depth, details2.bit_depth)
           f1 == read_video_frame(dec1, T[1])
           f2 == read_video_frame(dec2, T[2])
       IN /\ frame1' = f1
          /\ frame2' = f2
          /\ dec1' = advance(dec1, T[1])
          /\ dec2' = advance(dec2, T[2])
          /\ IF loop_ends(f1, f2)
             THEN /\ stderr' = IF lengths_differ(f1, f2)
                               THEN Append(stderr, warning(frameno))
                               ELSE stderr
                  /\ pc' = "finalize"
             ELSE /\ pc' = "tempfile1"
                  /\ UNCHANGED stderr
    /\ UNCHANGED <<overflow_checks, details1, details2, sum, norms, frameno,
                   disk, next_tmp, path1, path2, output, stdout, panic_msg,
                   launches, scored, cin, cout>>

\* A panic inside compare_frame: an unwrap of a failed step.
scorer_panic_skip(msg) == pc' = "read" /\ panic_msg' = msg
scorer_panic(msg) == panic(msg)

\* The disk with file `path` holding `content`.
WriteFile(path, content) ==
    [q \in DOMAIN disk \cup {path} |-> IF q = path THEN content ELSE disk[q]]

\* The disk without the files `paths` (fs::remove_file, its result ignored).
RemoveFiles(paths) == [q \in DOMAIN disk \ paths |-> disk[q]]

\* A file tempfile() has created and nothing has written yet.
EmptyFile == [written |-> FALSE, width |-> 0, height |-> 0, raster |-> << >>]

\* main.rs:214-219  Builder::new().suffix(".png").tempfile().unwrap().keep().unwrap()
TempFile1 ==
    /\ pc = "tempfile1"
    /\ \/ /\ scorer_panic("tempfile: cannot create")
          /\ UNCHANGED <<disk, next_tmp, path1>>
       \/ /\ path1' = Some(next_tmp + 1)
          /\ disk' = WriteFile(next_tmp + 1, EmptyFile)
          /\ next_tmp' = next_tmp + 1
          /\ pc' = "tempfile2"
          /\ UNCHANGED panic_msg
    /\ UNCHANGED <<overflow_checks, details1, details2, dec1, dec2, frame1,
                   frame2, sum, norms, frameno, path2, output, stdout, stderr,
                   launches, scored, cin, cout>>

\* main.rs:220-225
TempFile2 ==
    /\ pc = "tempfile2"
    /\ \/ /\ scorer_panic("tempfile: cannot create")
          /\ UNCHANGED <<disk, next_tmp, path2>>
       \/ /\ path2' = Some(next_tmp + 1)
          /\ disk' = WriteFile(next_tmp + 1, EmptyFile)
          /\ next_tmp' = next_tmp + 1
          /\ pc' = "save1"
          /\ UNCHANGED panic_msg
    /\ UNCHANGED <<overflow_checks, details1, details2, dec1, dec2, frame1,
                   frame2, sum, norms, frameno, path1, output, stdout, stderr,
                   launches, scored, cin, cout>>

\* The image file of a converted frame.
ImageFile(frame, conv) ==
    [written |-> TRUE,
     width |-> frame.planes[1].cfg.width,
     height |-> frame.planes[1].cfg.height,
     raster |-> conv.raster]

\* main.rs:227-233  convert frame1, save it to path1
Save1 ==
    /\ pc = "save1"
    /\ LET frame == FrameOf(1, details1, frame1[1])
           why == yuv_panic(frame, details1, frame1[1].T, overflow_checks)
       IN IF why # NoValue
          THEN scorer_panic(why) /\ UNCHANGED disk
          ELSE \/ /\ scorer_panic("image: cannot save")
                  /\ UNCHANGED disk
               \/ /\ disk' = WriteFile(path1[1],
                                        ImageFile(frame, yuv_to_rgb_u8(frame, details1, frame1[1].T,
                                                                       overflow_checks)))
                  /\ pc' = "save2"
                  /\ UNCHANGED panic_msg
    /\ UNCHANGED <<overflow_checks, details1, details2, dec1, dec2, frame1,
                   frame2, sum, norms, frameno, next_tmp, path1, path2, output,
                   stdout, stderr, launches, scored, cin, cout>>

\* main.rs:235-241  convert frame2, save it to path2
Save2 ==
    /\ pc = "save2"
    /\ LET frame == FrameOf(2, details2, frame2[1])
           why == yuv_panic(frame, details2, frame2[1].T, overflow_checks)
       IN IF why # NoValue
          THEN scorer_panic(why) /\ UNCHANGED disk
          ELSE \/ /\ scorer_panic("image: cannot save")
                  /\ UNCHANGED disk
               \/ /\ disk' = WriteFile(path2[1],
                                        ImageFile(frame, yuv_to_rgb_u8(frame, details2, frame2[1].T,
                                                                       overflow_checks)))
                  /\ pc' = "launch"
                  /\ UNCHANGED panic_msg
    /\ UNCHANGED <<overflow_checks, details1, details2, dec1, dec2, frame1,
                   frame2, sum, norms, frameno, next_tmp, path1, path2, output,
                   stdout, stderr, launches, scored, cin, cout>>

\* One attempt to run the tool, as the outside sees it.
Attempt_swapped(ran) ==
    [arg1 |-> path2[1], arg2 |-> path1[1], ran |-> ran, pair |-> frameno,
     file1 |-> disk[path2[1]], file2 |-> disk[path1[1]]]
Attempt(ran) ==
    [arg1 |-> path1[1], arg2 |-> path2[1], ran |-> ran, pair |-> frameno,
     file1 |-> disk[path1[1]], file2 |-> disk[path2[1]]]

\* main.rs:243-247  Command::new(base_command).arg(&path1).arg(&path2).output().unwrap()
Launch ==
    /\ pc = "launch"
    /\ \/ /\ scorer_panic("command: cannot launch")
          /\ launches' = Append(launches, Attempt(FALSE))
          /\ UNCHANGED output
       \/ /\ \E out \in ToolOutputs : output' = Some(out)
          /\ launches' = Append(launches, Attempt(TRUE))
          /\ pc' = "remove"
          /\ UNCHANGED panic_msg
    /\ UNCHANGED <<overflow_checks, details1, details2, dec1, dec2, frame1,
                   frame2, sum, norms, frameno, disk, next_tmp, path1, path2,
                   stdout, stderr, scored, cin, cout>>

\* main.rs:249-250
remove_first_only(p1, p2) == RemoveFiles({p1})
remove_both(p1, p2) == RemoveFiles({p1, p2})

Remove ==
    /\ pc = "remove"
    /\ disk' = remove_both(path1[1], path2[1])
    /\ pc' = "parse"
    /\ UNCHANGED <<overflow_checks, details1, details2, dec1, dec2, frame1,
                   frame2, sum, norms, frameno, next_tmp, path1, path2, output,
                   stdout, stderr, panic_msg, launches, scored, cin, cout>>

\* main.rs:110, 134, 158, 182  sum += score
add_score_last(total, score) == score
add_score(total, score) == total + score

\* main.rs:111-113  if let Some(norm) = norm { norms.push(norm) }
push_norm_always(ns, norm) == Append(ns, IF norm = None THEN 0 ELSE norm[1])
push_norm(ns, norm) == IF norm = None THEN ns ELSE Append(ns, norm[1])

\* main.rs:252-265, then 110-113 and 189: parse the output, return the
\* score and the norm, fold them in and count the pair.
ParseAndFold ==
    /\ pc = "parse"
    /\ LET score == ParsedScore[output[1]]
           norm == ParsedNorm[output[1]]
       IN IF score = None
          THEN /\ scorer_panic("score: called unwrap on a None or Err value")
               /\ UNCHANGED <<sum, norms, frameno, scored, frame1, frame2,
                              path1, path2, output>>
          ELSE IF norm.panic
          THEN /\ scorer_panic("norm: called unwrap on a None or Err value")
               /\ UNCHANGED <<sum, norms, frameno, scored, frame1, frame2,
                              path1, path2, output>>
          ELSE /\ sum' = add_score(sum, score[1])
               /\ norms' = push_norm(norms, norm.norm)
               /\ frameno' = frameno + 1
               /\ scored' = Append(scored, [f1 |-> frame1[1].index,
                                             f2 |-> frame2[1].index,
                                             score |-> score[1],
                                             norm |-> norm.norm,
                                             output |-> output[1]])
               /\ frame1' = None /\ frame2' = None
               /\ path1' = None /\ path2' = None /\ output' = None
               /\ pc' = "read"
               /\ UNCHANGED panic_msg
    /\ UNCHANGED <<overflow_checks, details1, details2, dec1, dec2, disk,
                   next_tmp, stdout, stderr, launches, cin, cout>>

\* main.rs:192  if frameno == 0
no_frames_never(n) == FALSE
no_frames(n) == n = 0

\* main.rs:196-197  the mean, as the fraction it is
ScoreLine(total, n) == [text |-> "Score", num |-> total, den |-> n]

\* main.rs:198-204  the norms fed to Quantile::new(0.75), in order
NormLine(ns) == [text |-> "3-norm (75th percentile)", fed |-> ns]

\* main.rs:192-204
Finalize ==
    /\ pc = "finalize"
    /\ IF no_frames(frameno)
       THEN panic("No frames read") /\ UNCHANGED stdout
       ELSE /\ stdout' = stdout \o <<ScoreLine(sum, frameno)>>
                                \o (IF norms # << >> THEN <<NormLine(norms)>> ELSE << >>)
            /\ pc' = "done"
            /\ UNCHANGED panic_msg
    /\ UNCHANGED <<overflow_checks, details1, details2, dec1, dec2, frame1,
                   frame2, sum, norms, frameno, disk, next_tmp, path1, path2,
                   output, stderr, launches, scored, cin, cout>>

Next ==
    \/ Open1 \/ Open2 \/ CheckDims \/ ReadFrames
    \/ TempFile1 \/ TempFile2 \/ Save1 \/ Save2 \/ Launch \/ Remove
    \/ ParseAndFold \/ Finalize

Spec == Init /\ [][Next]_vars

\* run_metric is one sequential thread of control: while a step can be
\* taken, one is taken, every call it makes returning (the decoder's reads,
\* the file operations and the blocking Command::output()).
FairSpec == Spec /\ WF_vars(Next)

---------------------------------------------------------------------------
(* Properties.                                                             *)

\* The lengths of the two streams.
LenA == dec1.len

LenB == dec2.len

MinLen == Min(LenA, LenB)

\* Both streams are open and the loop has been entered.
InLoop ==
    /\ dec1.open /\ dec2.open
    /\ pc # "check"
    /\ panic_msg # "assertion failed: left == right"

\* The process aborted inside compare_frame.
ScorerFailed ==
    panic_msg \notin {NoValue, "Failed to open file",
                      "assertion failed: left == right", "No frames read"}

RECURSIVE SumScores(_)
SumScores(pairs) ==
    IF pairs = << >> THEN 0
    ELSE SumScores(SubSeq(pairs, 1, Len(pairs) - 1)) + pairs[Len(pairs)].score

RECURSIVE NormsOf(_)
NormsOf(pairs) ==
    IF pairs = << >> THEN << >>
    ELSE NormsOf(SubSeq(pairs, 1, Len(pairs) - 1))
           \o pairs[Len(pairs)].norm

\* C1: two streams of different lengths m and n, both at least 1: the run
\* scores the pairs 0 .. min(m,n)-1 in order and no other; when the loop
\* ends the one warning cites frame min(m,n); the mismatch itself is never
\* fatal, and the report is the mean over those min(m,n) pairs.
C1_LengthMismatch ==
    (InLoop /\ LenA # LenB /\ MinLen >= 1) =>
        /\ Len(scored) <= MinLen
        /\ \A i \in 1 .. Len(scored) : scored[i].f1 = i - 1 /\ scored[i].f2 = i - 1
        /\ panic_msg # "No frames read"
        /\ pc \in {"finalize", "done"} =>
              /\ Len(scored) = MinLen
              /\ frameno = MinLen
              /\ Len(stderr) = 1
              /\ stderr[1].frame = MinLen
        /\ pc = "done" =>
              /\ stdout[1].text = "Score"
              /\ stdout[1].num = SumScores(scored)
              /\ stdout[1].den = MinLen

\* C1 witness: 3 frames against 2, reported over 2 pairs after the warning.
C1_Witness ==
    /\ pc = "done" /\ LenA = 3 /\ LenB = 2
    /\ Len(scored) = 2 /\ Len(stderr) = 1 /\ stderr[1].frame = 2
    /\ stdout[1].den = 2

\* C2: when one of the streams is empty no pair is scored, the run ends in
\* the no-frames panic and prints nothing; and a mean that is printed is
\* over at least one pair.
C2_NoFrames ==
    /\ (InLoop /\ MinLen = 0) =>
          /\ scored = << >>
          /\ stdout = << >>
          /\ pc \in {"read", "finalize", "panic"}
          /\ pc = "panic" => panic_msg = "No frames read"
    /\ stdout # << >> => (Len(scored) >= 1 /\ stdout[1].den >= 1)

\* C2 witness: an immediate mismatch, warned about and then fatal.
C2_Witness ==
    /\ pc = "panic" /\ panic_msg = "No frames read"
    /\ LenA = 0 /\ LenB = 2
    /\ Len(stderr) = 1 /\ stderr[1].frame = 0

\* The exit paths of compare_frame that C3 lists have been taken: it
\* returned, or it failed to write an image, to launch the tool or to parse.
C3_Exited ==
    \/ pc \in {"read", "finalize", "done"}
    \/ panic_msg \in {"image: cannot save", "command: cannot launch",
                      "score: called unwrap on a None or Err value",
                      "norm: called unwrap on a None or Err value"}

\* C3, as claimed: after compare_frame has returned or aborted, neither of
\* its temporary artifacts exists.
C3_ArtifactsGone == C3_Exited => DOMAIN disk = {}

\* C4: the frame counter is the number of completed scorer calls, the sum
\* is the sum of their primary scores, each once, and the reported mean is
\* that sum over that count; the scores 1, 2, 3 give the mean 2.
C4_Mean ==
    /\ frameno = Len(scored)
    /\ sum = SumScores(scored)
    /\ pc = "done" =>
          /\ Len(scored) >= 1
          /\ Len(launches) = Len(scored)
          /\ \A i \in 1 .. Len(launches) : launches[i].ran /\ launches[i].pair = i - 1
          /\ stdout[1] = [text |-> "Score", num |-> SumScores(scored),
                           den |-> Len(scored)]
          /\ (Len(scored) = 3 /\ {scored[i].score : i \in 1 .. 3} = {1, 2, 3})
                => (stdout[1].num = 2 * stdout[1].den)

\* C4 witness: three pairs scoring 1, 2 and 3, reported.
C4_Witness ==
    /\ pc = "done" /\ Len(scored) = 3
    /\ scored[1].score = 3 /\ scored[2].score = 1 /\ scored[3].score = 2
    /\ stdout[1].num = 6 /\ stdout[1].den = 3

\* C5: the norms collected are the norms the scored pairs reported, one for
\* each pair that reported one, in order; the estimator is fed exactly
\* those, and the percentile line is printed iff there is one.
C5_Norms ==
    /\ norms = NormsOf(scored)
    /\ pc = "done" =>
          IF \A i \in 1 .. Len(scored) : scored[i].norm = None
          THEN Len(stdout) = 1
          ELSE /\ Len(stdout) = 2
               /\ stdout[2].text = "3-norm (75th percentile)"
               /\ stdout[2].fed = NormsOf(scored)

\* C5 witness: only the second of two pairs reported a norm.
C5_Witness ==
    /\ pc = "done" /\ Len(scored) = 2
    /\ scored[1].norm = None /\ scored[2].norm = Some(5)
    /\ Len(stdout) = 2 /\ stdout[2].fed = <<5>>

\* C6: once a scorer call has failed the process is over: nothing is
\* enabled, nothing has been printed, neither stream was pulled after the
\* failing pair's frames, no pair was scored after it and the tool was
\* tried at most once for it.
C6_FailureAborts ==
    ScorerFailed =>
        /\ pc = "panic"
        /\ ~ ENABLED Next
        /\ stdout = << >>
        /\ dec1.calls = frameno + 1 /\ dec2.calls = frameno + 1
        /\ Len(scored) = frameno
        /\ Len(launches) <= frameno + 1
        /\ \A i \in 1 .. Len(launches) : launches[i].pair = i - 1

\* C6 witness: the second pair's output has no score, after one scored pair.
C6_Witness ==
    /\ pc = "panic"
    /\ panic_msg = "score: called unwrap on a None or Err value"
    /\ Len(scored) = 1 /\ Len(launches) = 2 /\ LenA = 3 /\ LenB = 3

\* C7: streams that differ in width or in height get no further than the
\* check: the run aborts there, with no frame pulled, no artifact created,
\* no tool launched and nothing printed.
C7_Dimensions ==
    (dec1.open /\ dec2.open
       /\ (details1.width # details2.width \/ details1.height # details2.height)) =>
        /\ pc \in {"check", "panic"}
        /\ pc = "panic" => panic_msg = "assertion failed: left == right"
        /\ dec1.calls = 0 /\ dec2.calls = 0
        /\ next_tmp = 0 /\ DOMAIN disk = {}
        /\ launches = << >> /\ scored = << >> /\ stdout = << >>

\* C7 witness: equal heights, different widths, aborted at the check.
C7_Witness ==
    /\ pc = "panic" /\ panic_msg = "assertion failed: left == right"
    /\ details1.height = details2.height /\ details1.width # details2.width
    /\ LenA >= 1 /\ LenB >= 1

\* C8, as claimed: a run in which a stream declares an unsupported bit
\* depth scores no pair and prints no mean.
C8_UnsupportedDepthFatal ==
    (dec1.open /\ dec2.open
       /\ (details1.bit_depth \notin SupportedBitDepths
             \/ details2.bit_depth \notin SupportedBitDepths)) =>
        /\ scored = << >>
        /\ stdout = << >>
        /\ pc # "done"

\* The frame dimensions and the layout of the conversion.
ConvW == cin.details.width

ConvH == cin.details.height

\* The luma plane the decoder delivered.
ConvLumaPlane == ConvFrame(cin).planes[1]

\* Pixel (x, y) of a raster of width w, as <<R, G, B>>.
RasterPixel(raster, w, x, y) ==
    LET at == 3 * (y * w + x)
    IN << raster[at + 1], raster[at + 2], raster[at + 3] >>

\* C9: a Mono frame of a supported depth b, of any height: every pixel is
\* R = G = B = the luma sample at depth 8, the luma sample shifted right by
\* b - 8 above, whatever the chroma planes hold and whichever matrix the
\* height selects.
C9_MonoLuma ==
    (pc = "converted" /\ cin.details.chroma_sampling = "Cs400"
       /\ cin.details.bit_depth \in SupportedBitDepths) =>
        /\ cout.panic = NoValue
        /\ Len(cout.raster) = 3 * ConvW * ConvH
        /\ LET b == cin.details.bit_depth
               w == ConvW
               plane == ConvLumaPlane
               raster == cout.raster
               div == IF b = 8 THEN 1 ELSE 2 ^ (b - 8)
           IN \A x \in 0 .. w - 1 : \A y \in 0 .. ConvH - 1 :
                 LET luma == SampleAt(plane, x, y) \div div
                 IN RasterPixel(raster, w, x, y) = <<luma, luma, luma>>

\* C9 witness: a converted 10-bit Mono frame above the colorimetry boundary
\* whose first pixel is the shifted luma sample.
C9_Witness ==
    /\ pc = "converted" /\ cin.details.chroma_sampling = "Cs400"
    /\ cin.details.bit_depth = 10 /\ ConvH = 577 /\ cin.seeds[1] = 180
    /\ SampleAt(ConvLumaPlane, 0, 1) = 725
    /\ RasterPixel(cout.raster, ConvW, 0, 1) = <<181, 181, 181>>

\* C10: for a frame with chroma the matrix is BT.709 iff the luma plane is
\* higher than 576 and BT.601 otherwise, for every width, depth and layout,
\* and it is the matrix the pixels are converted with.
C10_MatrixByHeight ==
    (pc = "converted" /\ cin.details.chroma_sampling # "Cs400"
       /\ cout.panic = NoValue) =>
        LET matrix == IF ConvH > 576 THEN "BT709" ELSE "BT601"
            frame == ConvFrame(cin)
            T == SizeOfSample(cin.details.bit_depth)
            shift == bd_shift(cin.details)
        IN /\ cout.colorspace = matrix
           /\ RasterPixel(cout.raster, ConvW, 0, 0)
                = to_rgb(matrix, sample_u8(frame.planes[1], 0, 0, T, shift),
                                 sample_u8(frame.planes[2], 0, 0, T, shift),
                                 sample_u8(frame.planes[3], 0, 0, T, shift))

\* C10 witness: a frame of height exactly 576 converted with BT.601.
C10_Witness ==
    /\ pc = "converted" /\ cin.details.chroma_sampling = "Cs422"
    /\ ConvH = 576 /\ cin.details.bit_depth = 12
    /\ cout.colorspace = "BT601" /\ Len(cout.raster) = 3 * ConvW * 576

\* A panic before the loop: a stream that did not open or the dimension check.
FailedBeforeLoop ==
    panic_msg \in {"Failed to open file", "assertion failed: left == right"}

\* C11: the two streams are always pulled the same number of times: as
\* often as pairs were scored between two loop steps, once more from the
\* pulls of a step on (the terminating step included, also when the first
\* pull returned nothing); no stream is pulled after a pull returned
\* nothing, each pull moves its stream on by one frame, and pair i scored is
\* frame i of stream 1 with frame i of stream 2.
C11_Lockstep ==
    /\ dec1.calls = dec2.calls
    /\ (pc \in {"open1", "open2", "check"} \/ FailedBeforeLoop) => dec1.calls = 0
    /\ pc = "read" => dec1.calls = frameno
    /\ (pc \notin {"open1", "open2", "check", "read"} /\ ~ FailedBeforeLoop)
          => dec1.calls = frameno + 1
    /\ (dec1.open /\ dec2.open) =>
          /\ dec1.calls <= Min(dec1.len, dec2.len) + 1
          /\ dec1.pos = Min(dec1.calls, dec1.len)
          /\ dec2.pos = Min(dec2.calls, dec2.len)
    /\ \A i \in 1 .. Len(scored) : scored[i].f1 = i - 1 /\ scored[i].f2 = i - 1

\* C11 witness: stream 1 ended first; the terminating step still pulled
\* stream 2, which yielded a frame, and neither stream was pulled again.
C11_Witness ==
    /\ pc = "done" /\ dec1.len = 1 /\ dec2.len = 3
    /\ frame1 = None /\ frame2 # None
    /\ dec1.calls = 2 /\ dec2.calls = 2 /\ dec2.pos = 2
    /\ Len(scored) = 1

\* C12: each stream is read with one-byte samples exactly when its own
\* declared bit depth is 8 and with two-byte samples otherwise, whatever the
\* other stream declares, in every pull of the run, those that yield
\* nothing included.
C12_SampleWidth ==
    /\ dec1.open => /\ dec1.sizes \subseteq {IF details1.bit_depth = 8 THEN 1 ELSE 2}
                    /\ dec1.calls > 0 => dec1.sizes # {}
                    /\ frame1 # None =>
                          (frame1[1].T = 1 <=> details1.bit_depth = 8)
    /\ dec2.open => /\ dec2.sizes \subseteq {IF details2.bit_depth = 8 THEN 1 ELSE 2}
                    /\ dec2.calls > 0 => dec2.sizes # {}
                    /\ frame2 # None =>
                          (frame2[1].T = 1 <=> details2.bit_depth = 8)

\* C12 witness: a wide stream against an 8-bit one, two pairs scored and
\* the terminating step done.
C12_Witness ==
    /\ pc = "done" /\ details1.bit_depth = 10 /\ details2.bit_depth = 8
    /\ dec1.sizes = {2} /\ dec2.sizes = {1}
    /\ dec1.calls = 3 /\ Len(scored) = 2

\* The chroma plane the decoder delivered.
ConvChromaPlane == ConvFrame(cin).planes[2]

\* C13, as claimed: for a converted frame with chroma of a supported depth,
\* the chroma coordinate read for every luma coordinate of the frame lies
\* inside the chroma plane of the layout.
C13_ChromaInside ==
    (pc = "converted" /\ cin.details.chroma_sampling # "Cs400"
       /\ cin.details.bit_depth \in SupportedBitDepths
       /\ cout.panic = NoValue) =>
        LET plane == ConvChromaPlane
        IN \A x \in 0 .. ConvW - 1 : \A y \in 0 .. ConvH - 1 :
              LET c == chroma_xy(cin.details.chroma_sampling, x, y)
              IN c[1] < plane.cfg.width /\ c[2] < plane.cfg.height

\* The position of the first non-empty line of a text, 0 when it has none.
FirstNonEmptyAt(lines) ==
    IF \A i \in 1 .. Len(lines) : lines[i] = << >> THEN 0
    ELSE CHOOSE i \in 1 .. Len(lines) :
            lines[i] # << >> /\ \A j \in 1 .. i - 1 : lines[j] = << >>

\* The number the first non-empty line of a text is, None when the text has
\* no such line or the line is not a number.
ScoreOfText(lines) ==
    LET k == FirstNonEmptyAt(lines)
    IN IF k = 0 THEN None ELSE parse_f64(trim(lines[k]))

\* C14: the primary score of every completed call is the number on the
\* first non-empty line of that call's output, whatever the later lines
\* hold; an output without a non-empty line, or whose first non-empty line
\* is not a number, ends the run in the score panic with the pair not
\* scored, and that panic has no other cause.
C14_PrimaryScore ==
    /\ \A i \in 1 .. Len(scored) :
          ScoreOfText(scored[i].output) = Some(scored[i].score)
    /\ (output # None /\ ScoreOfText(output[1]) = None) =>
          /\ pc \in {"remove", "parse", "panic"}
          /\ pc = "panic" =>
                panic_msg = "score: called unwrap on a None or Err value"
          /\ Len(scored) = frameno
          /\ stdout = << >>
    /\ panic_msg = "score: called unwrap on a None or Err value" =>
          /\ pc = "panic"
          /\ output # None
          /\ ScoreOfText(output[1]) = None

\* C14 witness: one pair scored 3 from the output "3", "9", the next 2 from
\* an output whose first line is empty and whose second is " 2 ", and the
\* third aborted on an output whose first non-empty line is a blank.
C14_Witness ==
    /\ pc = "panic" /\ Len(scored) = 2
    /\ scored[1].output = << <<"3">>, <<"9">> >> /\ scored[1].score = 3
    /\ scored[2].output[1] = << >> /\ scored[2].output[2] = <<" ", "2", " ">>
    /\ scored[2].score = 2
    /\ output = Some(<< <<" ">>, <<"1">> >>)
    /\ panic_msg = "score: called unwrap on a None or Err value"

\* The position of the first line of a text that begins with the marker, 0
\* when no line does.
FirstMarkedAt(lines) ==
    LET marked(i) == Len(lines[i]) >= 6
                       /\ SubSeq(lines[i], 1, 6) = <<"3", "-", "n", "o", "r", "m">>
    IN IF \A i \in 1 .. Len(lines) : ~ marked(i) THEN 0
       ELSE CHOOSE i \in 1 .. Len(lines) :
               marked(i) /\ \A j \in 1 .. i - 1 : ~ marked(j)

\* C15, of completed calls: the norm is the number right of the first ": "
\* of the first marker line of the call's output, and absent when no line
\* begins with the marker.
C15_NormOfScored ==
    \A i \in 1 .. Len(scored) :
       LET lines == scored[i].output
           k == FirstMarkedAt(lines)
       IN IF k = 0 THEN scored[i].norm = None
          ELSE LET parts == split_once(lines[k], <<":", " ">>)
               IN /\ parts # None
                  /\ scored[i].norm # None
                  /\ scored[i].norm = parse_f64(parts[1][2])

\* C15, of the call that parses an output with a valid score and no marker
\* line: it returns, the score is added to the sum, no norm is collected,
\* the pair is counted and the loop goes on to its next pull.
C15_NoMarkerContinues ==
    (pc = "parse" /\ ScoreOfText(output[1]) # None /\ FirstMarkedAt(output[1]) = 0) =>
        /\ pc' = "read"
        /\ panic_msg' = NoValue
        /\ sum' = sum + ScoreOfText(output[1])[1]
        /\ norms' = norms
        /\ frameno' = frameno + 1
        /\ Len(scored') = Len(scored) + 1

\* C15: both parts, in every step of every run.
C15_Norm == [] C15_NormOfScored /\ [][C15_NoMarkerContinues]_vars

\* C15 witness: a pair without a marker line was scored 1 with no norm, and
\* the run went on to score the next pair 2 with the norm 5, the first of
\* the two marker lines of its output.
C15_Witness ==
    /\ Len(scored) = 2 /\ pc = "read"
    /\ scored[1].output = << <<"1">> >>
    /\ scored[1].score = 1 /\ scored[1].norm = None
    /\ Len(scored[2].output) = 4
    /\ scored[2].output[4] = <<"3", "-", "n", "o", "r", "m", ":", " ", "7">>
    /\ scored[2].norm = Some(5)
    /\ sum = 3 /\ norms = <<5>>

\* The loop has ended: the terminating step has been taken.
LoopEnded == pc \in {"finalize", "done"} \/ panic_msg = "No frames read"

\* C16: there is at most one warning; it is there once the loop has ended
\* exactly when one of the two pulls of the terminating step returned a
\* frame and the other none, and never before; no pair is scored after it;
\* two streams of one length n >= 1 are never warned about, and a run over
\* them that reaches its end has scored n pairs.
C16_Warning ==
    /\ Len(stderr) <= 1
    /\ stderr # << >> =>
          /\ LoopEnded
          /\ Len(scored) = stderr[1].frame
          /\ frameno = stderr[1].frame
    /\ LoopEnded =>
          /\ frame1 = None \/ frame2 = None
          /\ Len(stderr) = 1 <=> ((frame1 = None) # (frame2 = None))
    /\ (dec1.open /\ dec2.open /\ dec1.len = dec2.len /\ dec1.len >= 1) =>
          /\ stderr = << >>
          /\ LoopEnded => (Len(scored) = dec1.len /\ pc # "panic")

\* C16 witness: two streams of three frames, three pairs scored, both pulls
\* of the terminating step empty, no warning.
C16_Witness ==
    /\ pc = "done" /\ dec1.len = 3 /\ dec2.len = 3
    /\ Len(scored) = 3 /\ dec1.calls = 4
    /\ frame1 = None /\ frame2 = None /\ stderr = << >>

\* The process aborted while parsing the tool's output.
ParseFailed ==
    panic_msg \in {"score: called unwrap on a None or Err value",
                   "norm: called unwrap on a None or Err value"}

\* The image of frame `index` of a stream, as compare_frame converts it.
ImageOf(stream, details, index) ==
    LET T == IF details.bit_depth = 8 THEN 1 ELSE 2
        frame == FrameOf(stream, details, [index |-> index, T |-> T])
    IN yuv_to_rgb_u8(frame, details, T, overflow_checks).raster

\* The first pixel of that image.
FirstPixelOf(stream, details, index) ==
    LET T == IF details.bit_depth = 8 THEN 1 ELSE 2
        frame == FrameOf(stream, details, [index |-> index, T |-> T])
    IN pixel(frame, details, T, 0, 0)

\* C17: within a call of compare_frame the tool is tried once, after both
\* artifacts were created and written, with the artifact of stream 1 (the
\* first created, holding the image of stream 1's frame) as first argument
\* and that of stream 2 as second; both artifacts exist until the tool has
\* exited, and are gone when the output is parsed, also when parsing fails.
\* The artifacts are compared with the whole images when the tool is about
\* to be launched, and what the tool was given with their first pixels.
C17_Ordering ==
    /\ \A i \in 1 .. Len(launches) :
          /\ launches[i].pair = i - 1
          /\ launches[i].arg1 = 2 * i - 1
          /\ launches[i].arg2 = 2 * i
          /\ launches[i].file1.written /\ launches[i].file2.written
    /\ (pc = "remove" \/ panic_msg = "command: cannot launch") =>
          LET a == launches[Len(launches)]
          IN /\ RasterPixel(a.file1.raster, details1.width, 0, 0)
                   = FirstPixelOf(1, details1, a.pair)
             /\ RasterPixel(a.file2.raster, details2.width, 0, 0)
                   = FirstPixelOf(2, details2, a.pair)
             /\ a.file1.width = details1.width /\ a.file1.height = details1.height
             /\ a.file2.width = details2.width /\ a.file2.height = details2.height
             /\ Len(a.file1.raster) = 3 * details1.width * details1.height
             /\ Len(a.file2.raster) = 3 * details2.width * details2.height
    /\ pc = "launch" =>
          /\ disk[path1[1]].raster = ImageOf(1, details1, frameno)
          /\ disk[path2[1]].raster = ImageOf(2, details2, frameno)
    /\ pc \in {"read", "tempfile1", "tempfile2", "save1", "save2", "launch"}
          => Len(launches) = frameno
    /\ pc \in {"remove", "parse"} => Len(launches) = frameno + 1
    /\ pc = "panic" => Len(launches) <= frameno + 1
    /\ pc \in {"save1", "save2", "launch", "remove"} =>
          /\ path1 = Some(2 * frameno + 1) /\ path2 = Some(2 * frameno + 2)
          /\ DOMAIN disk = {2 * frameno + 1, 2 * frameno + 2}
    /\ pc = "launch" => disk[path1[1]].written /\ disk[path2[1]].written
    /\ pc = "remove" => output # None /\ launches[Len(launches)].ran
    /\ pc = "parse" => DOMAIN disk = {} /\ output # None
    /\ ParseFailed => DOMAIN disk = {} /\ Len(launches) = frameno + 1

\* C17 witness: the second call's output could not be parsed; the tool had
\* been run on the third and fourth temporary file, both written, and both
\* were removed before the parse failed.
C17_Witness ==
    /\ pc = "panic" /\ ParseFailed /\ frameno = 1
    /\ Len(launches) = 2 /\ launches[2].ran
    /\ launches[2].arg1 = 3 /\ launches[2].arg2 = 4
    /\ launches[2].file1.written /\ launches[2].file2.written
    /\ launches[2].file1.raster # launches[2].file2.raster
    /\ DOMAIN disk = {}

\* C18: while the run has not aborted, the temporary files on disk are at
\* most the two of the pair being scored; none exists between two calls,
\* at a pull, after the loop or when the scores are printed.
C18_AtMostTwo ==
    pc # "panic" =>
        /\ Cardinality(DOMAIN disk) <= 2
        /\ DOMAIN disk \subseteq {2 * frameno + 1, 2 * frameno + 2}
        /\ next_tmp <= 2 * frameno + 2
        /\ pc \in {"open1", "open2", "check", "read", "tempfile1", "parse",
                   "finalize", "done"} => DOMAIN disk = {}
        /\ pc \in {"read", "finalize", "done"} => next_tmp = 2 * frameno
        /\ stdout # << >> => DOMAIN disk = {}

\* C18 witness: the second pair is about to be handed to the tool; its two
\* files are the only ones on disk, those of the first pair are gone.
C18_Witness ==
    /\ pc = "launch" /\ frameno = 1 /\ Len(scored) = 1
    /\ DOMAIN disk = {3, 4} /\ next_tmp = 4

\* The process has ended: the report is printed, or it panicked.
Halted == pc \in {"done", "panic"}

\* The loop steps taken so far: each step begins with one pull per stream.
LoopSteps == dec1.calls

\* C19, as claimed: a run over two opened streams of equal dimensions that
\* has ended took exactly min(m,n) + 1 loop steps.
C19_ExactSteps == (InLoop /\ Halted) => LoopSteps = MinLen + 1

\* The loop steps of C19 as they are: never more than min(m,n) + 1, so that
\* neither stream is read beyond the frame after the shorter one's last;
\* exactly min(m,n) + 1 in a run that left the loop, whether it then printed
\* the report or found no frames; and one more than the pairs scored, at
\* most min(m,n), in a run that aborted inside a scorer call.
C19_Steps ==
    InLoop =>
        /\ LoopSteps <= MinLen + 1
        /\ dec1.pos <= MinLen + 1 /\ dec2.pos <= MinLen + 1
        /\ (LoopEnded /\ Halted) => LoopSteps = MinLen + 1
        /\ pc = "done" => stdout # << >> /\ stdout[1].text = "Score"
        /\ ScorerFailed => (LoopSteps = frameno + 1 /\ LoopSteps <= MinLen)
        /\ Halted => (LoopEnded \/ ScorerFailed)

\* C19: every run ends, in the report or in a panic, and its loop steps are
\* bounded as above.
C19_Terminates == <> Halted /\ [] C19_Steps

\* C19 witness: 2 frames against 3, ended in the report after 3 loop steps,
\* the longer stream read up to its third frame and no further.
C19_Witness ==
    /\ pc = "done" /\ dec1.len = 2 /\ dec2.len = 3
    /\ dec1.calls = 3 /\ dec2.pos = 3 /\ Len(scored) = 2

=============================================================================
